---- MODULE Spec2Model ----
(***************************************************************************)
(* The ArtNet consumer of caspar-server                                    *)
(* (src/src/modules/artnet/consumer/artnet_consumer.cpp): the frame        *)
(* mailbox shared by the producer's send() and the pacing thread, the      *)
(* pacing loop with its sleep computation, the per-sender send cycle, the  *)
(* packet layout, the destructor, the configuration pipeline              *)
(* (create_preconfigured_consumer, get_fixtures_ptree, compute_fixtures)   *)
(* that fixes the channel addresses the encoder writes to, and the channel *)
(* encoder on its own.                                                     *)
(***************************************************************************)
EXTENDS Integers, Sequences, FiniteSets, TLC

(***************************************************************************)
(* Bounds of the model.                                                    *)
(***************************************************************************)
\* Number of frames the producers deliver in one run (frame ids 1..MaxFrames).
MaxFrames == 2
\* A sleep_for or a send_to may take up to MaxLate ms longer than its minimum.
MaxLate == 1
\* Largest fixture-count drawn for a fixture element of the configuration tree.
MaxFixtureCount == 2

(***************************************************************************)
(* Program constants.                                                      *)
(***************************************************************************)
\* uint8_t dmx_data[512]
UniverseSize == 512
\* std::uint8_t header[] has 18 entries; buffer[18 + 512]
HeaderSize == 18
\* long long time = 1000 / config.refreshRate
MsPerSecond == 1000
\* uint8_t arithmetic wraps modulo 2^8
ByteMod == 256
\* FixtureType: the enumerators' values are the types' channel counts
\* (fixtureChannels = f.type); the enum itself lives in fixture_calculation.h.
DIMMER == 1
RGB == 3
RGBW == 4

\* Mutant: the greater of the two.
Min2_Max(a, b) == IF a < b THEN b ELSE a

\* std::min
Min2(a, b) == IF a < b THEN a ELSE b

(***************************************************************************)
(* Frames.  A frame is identified by the order of its delivery; the colour *)
(* average_color finds in it is the same over every rectangle (a solid     *)
(* frame).  average_color and compute_rect are supplied to this file by    *)
(* ../util/fixture_calculation.h.                                          *)
(***************************************************************************)
NoFrame == 0

Palette == << [r |-> 255, g |-> 0, b |-> 0],
              [r |-> 10, g |-> 200, b |-> 30],
              [r |-> 77, g |-> 77, b |-> 255],
              [r |-> 0, g |-> 0, b |-> 0] >>

average_color(frame, rectangle) == Palette[((frame - 1) % Len(Palette)) + 1]

compute_rect(box, i, count) == << box, i, count >>

(***************************************************************************)
(* Channel encoder: the bytes send_computed_sender writes at ptr[0..].     *)
(***************************************************************************)
EncodeChannels(type, color) ==
    CASE type = DIMMER ->
           << ((279 * color.r + 547 * color.g + 106 * color.b) \div 1000) % ByteMod >>
      [] type = RGB -> << color.r, color.g, color.b >>
      [] type = RGBW ->
           LET w == Min2(Min2(color.r, color.g), color.b)
           IN  << (color.r - w) % ByteMod, (color.g - w) % ByteMod,
                  (color.b - w) % ByteMod, w >>

\* The zero-based offsets of dmx_data that one fixture's case writes.
WriteOffsets(computed_fixture) ==
    { computed_fixture.address + k - 1 :
        k \in 1 .. Len(EncodeChannels(computed_fixture.type, Palette[1])) }

\* Mutant: the memset is missing and the array holds what the stack held.
ZeroUniverse_Garbage == [i \in 1 .. UniverseSize |-> 170]

\* memset(dmx_data, 0, 512)
ZeroUniverse == [i \in 1 .. UniverseSize |-> 0]

\* ptr[k - 1] = bytes[k], for k = 1 .. Len(bytes), with ptr = data + address.
\* data is indexed from 1 here, so ptr[k - 1] is data[address + k].
RECURSIVE WriteBytes(_, _, _, _)
WriteBytes(data, address, bytes, k) ==
    IF k > Len(bytes) THEN data
    ELSE WriteBytes([data EXCEPT ![address + k] = bytes[k]], address, bytes, k + 1)

\* One pass of the fixture loop of send_computed_sender.
WriteFixture(data, computed_fixture, frame) ==
    WriteBytes(data, computed_fixture.address,
               EncodeChannels(computed_fixture.type,
                              average_color(frame, computed_fixture.rectangle)),
               1)

RECURSIVE WriteFixtures(_, _, _, _)
WriteFixtures(data, fixtures, k, frame) ==
    IF k > Len(fixtures) THEN data
    ELSE WriteFixtures(WriteFixture(data, fixtures[k], frame), fixtures, k + 1, frame)

\* The dmx_data that send_computed_sender hands to send_dmx_data.
UniverseData(sender, frame) == WriteFixtures(ZeroUniverse, sender.fixtures, 1, frame)

(***************************************************************************)
(* Universe packetizer: the buffer send_dmx_data passes to send_to.        *)
(***************************************************************************)
\* Mutant: the universe bytes in big-endian order.
ArtNetHeader_Swapped(universe, length) ==
    LET hUni == (universe \div ByteMod) % ByteMod
        lUni == universe % ByteMod
        hLen == (length \div ByteMod) % ByteMod
        lLen == length % ByteMod
    IN  << 65, 114, 116, 45, 78, 101, 116, 0, 0, 80, 0, 14, 0, 0, hUni, lUni, hLen, lLen >>

ArtNetHeader(universe, length) ==
    LET hUni == (universe \div ByteMod) % ByteMod
        lUni == universe % ByteMod
        hLen == (length \div ByteMod) % ByteMod
        lLen == length % ByteMod
    IN  << 65, 114, 116, 45, 78, 101, 116, 0, 0, 80, 0, 14, 0, 0, lUni, hUni, hLen, lLen >>

\* for (int i = 0; i < 18 + 512; i++) ...: the header for i < 18, then
\* data[i - 18] while i - 18 < length, then zeros.  Indexed from 1 here.
DmxPacket(sender, data, length) ==
    ArtNetHeader(sender.universe, length)
        \o [k \in 1 .. UniverseSize |-> IF k - 1 < length THEN data[k] ELSE 0]

(***************************************************************************)
(* Geometry compiler.                                                      *)
(***************************************************************************)
\* Mutant: the instance index counted from one.
FixtureInstances_OneBased(fixture) ==
    [n \in 1 .. fixture.fixtureCount |->
        [type |-> fixture.type,
         address |-> fixture.startAddress + n * fixture.fixtureChannels,
         rectangle |-> compute_rect(fixture.fixtureBox, n - 1, fixture.fixtureCount)]]

\* The inner loop of compute_fixtures: the instances of one fixture.
FixtureInstances(fixture) ==
    [n \in 1 .. fixture.fixtureCount |->
        [type |-> fixture.type,
         address |-> fixture.startAddress + (n - 1) * fixture.fixtureChannels,
         rectangle |-> compute_rect(fixture.fixtureBox, n - 1, fixture.fixtureCount)]]

RECURSIVE ComputeFixturesFrom(_, _)
ComputeFixturesFrom(fixtures, k) ==
    IF k > Len(fixtures) THEN << >>
    ELSE FixtureInstances(fixtures[k]) \o ComputeFixturesFrom(fixtures, k + 1)

compute_fixtures(sender) == ComputeFixturesFrom(sender.fixtures, 1)

compute_senders(configuration) ==
    [n \in 1 .. Len(configuration.senders) |->
        [endpoint |-> << configuration.senders[n].host, configuration.senders[n].port >>,
         universe |-> configuration.senders[n].universe,
         fixtures |-> compute_fixtures(configuration.senders[n])]]

(***************************************************************************)
(* Configurations the consumer is constructed with.  Each has passed       *)
(* create_preconfigured_consumer and get_fixtures_ptree (startAddress is   *)
(* already zero-based) and keeps every fixture inside the universe, so     *)
(* that every write of the encoder is a defined one; configurations that   *)
(* do not are the subject of SpecGeometry below.                           *)
(***************************************************************************)
NoBox == [x |-> 0, y |-> 0, width |-> 0, height |-> 0, rotation |-> 0]

Fixture(type, startAddress, fixtureCount, fixtureChannels) ==
    [type |-> type, startAddress |-> startAddress, fixtureCount |-> fixtureCount,
     fixtureChannels |-> fixtureChannels, fixtureBox |-> NoBox]

Sender(host, port, universe, fixtures) ==
    [host |-> host, port |-> port, universe |-> universe, fixtures |-> fixtures]

Configurations ==
    { [refreshRate |-> 500,
       senders |-> << Sender("10.0.0.1", 6454, 0, << Fixture(RGB, 0, 2, 3) >>),
                      Sender("10.0.0.2", 6454, 258,
                             << Fixture(RGBW, 508, 1, 4), Fixture(DIMMER, 10, 1, 1) >>) >>],
      [refreshRate |-> 1000,
       senders |-> << Sender("127.0.0.1", 6454, 66051, << >>) >>],
      [refreshRate |-> 1001,
       senders |-> << Sender("10.0.0.3", 6454, 1, << Fixture(DIMMER, 511, 1, 1) >>) >>] }

Producers == {"p1", "p2"}

VARIABLES
    config,            \* const configuration config
    computed_senders,  \* std::vector<computed_sender> computed_senders
    last_frame_,       \* core::const_frame last_frame_ (NoFrame: empty)
    frame_mutex_,      \* owner of frame_mutex_: "free", "pacer" or a producer
    thread_,           \* std::thread thread_: "none", "joinable" or "joined"
    abort_request_,    \* std::atomic<bool> abort_request_
    socket,            \* udp::socket socket: "open" or "released"
    terminated,        \* std::terminate() has ended the process
    dtor,              \* position of ~artnet_consumer
    clock,             \* std::chrono::system_clock, in ms (its readings never decrease)
    pc,                \* position of the pacing thread
    time,              \* locals of the pacing thread ...
    last_send,
    now,
    sleep_time,
    frame,             \* (NoFrame again once the iteration that copied it has ended)
    idx,               \* position of the loop of send_computed_senders
    dmx_data,          \* locals of send_computed_sender / send_dmx_data
    buffer,
    call,              \* per producer: position inside send()
    arg,               \* per producer: the frame passed to send() (NoFrame outside a call)
    result,            \* per producer: value of the future send() returned last
    next_frame,        \* next frame the pipeline hands to send()
    last_completed,    \* history: frame of the send() that returned last
    sent,              \* history: datagrams handed to the network in this iteration
    cycle,             \* history: state of this iteration's send cycle
    error_at,          \* history: sender whose send threw in this iteration (0: none)
    since_cycle,       \* history: ms since the latest send cycle started (-1: none yet)
    work,              \* history: ms the latest send cycle's sends have taken so far
    post_abort,        \* history: send cycles started after abort_request_ was set
    sampled,           \* history: the frames the pacing thread has read so far
    g_pc,              \* configuration pipeline: position
    g_xml,             \* configuration pipeline: the <fixture> element
    g_fixtures,        \* configuration pipeline: result of get_fixtures_ptree
    g_computed,        \* configuration pipeline: result of compute_fixtures
    g_k,               \* configuration pipeline: fixture being encoded
    g_written,         \* configuration pipeline: offsets of dmx_data written so far
    g_refresh,         \* configuration pipeline: config.refreshRate of the local config
    g_error,           \* configuration pipeline: message of the user_error thrown ("": none)
    spawned,           \* history: std::thread objects initialize() has constructed
    e_pc,              \* channel encoder: position
    e_type,            \* channel encoder: computed_fixture.type
    e_color,           \* channel encoder: the colour average_color returned
    e_bytes            \* channel encoder: the bytes written at ptr[0..]

shared == << config, computed_senders, last_frame_, frame_mutex_, thread_, abort_request_,
             socket, terminated, dtor, clock >>
pacer == << pc, time, last_send, now, sleep_time, frame, idx, dmx_data, buffer >>
producer == << call, arg, result, next_frame >>
history == << last_completed, sent, cycle, error_at, since_cycle, work, post_abort,
              sampled, spawned >>
geometry == << g_pc, g_xml, g_fixtures, g_computed, g_k, g_written, g_refresh, g_error >>
encoder == << e_pc, e_type, e_color, e_bytes >>
offline == << geometry, encoder >>
vars ==<< shared, pacer, producer, history, offline >>

(***************************************************************************)
(* The state after the constructor: compute_senders() has run, the socket  *)
(* is open, no thread has been started and no frame delivered.             *)
(***************************************************************************)
GeometryOff ==
    /\ g_pc = "off"
    /\ g_xml = << >>
    /\ g_fixtures = << >>
    /\ g_computed = << >>
    /\ g_k = 0
    /\ g_written = {}
    /\ g_refresh = 0
    /\ g_error = ""

EncoderOff ==
    /\ e_pc = "off"
    /\ e_type = 0
    /\ e_color = [r |-> 0, g |-> 0, b |-> 0]
    /\ e_bytes = << >>

Constructed(configuration) ==
    /\ config = configuration
    /\ computed_senders = compute_senders(configuration)
    /\ last_frame_ = NoFrame
    /\ frame_mutex_ = "free"
    /\ thread_ = "none"
    /\ abort_request_ = FALSE
    /\ socket = "open"
    /\ terminated = FALSE
    /\ dtor = "alive"
    /\ clock = 0
    /\ pc = "none"
    /\ time = 0
    /\ last_send = 0
    /\ now = 0
    /\ sleep_time = 0
    /\ frame = NoFrame
    /\ idx = 0
    /\ dmx_data = << >>
    /\ buffer = << >>
    /\ call = [p \in Producers |-> "idle"]
    /\ arg = [p \in Producers |-> NoFrame]
    /\ result = [p \in Producers |-> "none"]
    /\ next_frame = 1
    /\ last_completed = NoFrame
    /\ sent = << >>
    /\ cycle = "idle"
    /\ error_at = 0
    /\ since_cycle = -1
    /\ work = 0
    /\ post_abort = 0
    /\ sampled = {}
    /\ spawned = 0

Init ==
    /\ \E configuration \in Configurations : Constructed(configuration)
    /\ GeometryOff
    /\ EncoderOff

(***************************************************************************)
(* initialize(): thread_ = std::thread(...).  The right-hand side is       *)
(* evaluated first: a new thread is constructed and starts running the     *)
(* lambda.  It is then move-assigned to thread_, and assigning to a        *)
(* std::thread that is still joinable calls std::terminate().              *)
(***************************************************************************)
Initialize ==
    /\ ~terminated
    /\ dtor = "alive"
    /\ spawned' = spawned + 1
    /\ IF thread_ = "none"
       THEN /\ thread_' = "joinable"
            /\ pc' = "start"
            /\ UNCHANGED terminated
       ELSE /\ terminated' = TRUE
            /\ UNCHANGED << thread_, pc >>
    /\ UNCHANGED << config, computed_senders, last_frame_, frame_mutex_, abort_request_,
                    socket, dtor, clock >>
    /\ UNCHANGED << time, last_send, now, sleep_time, frame, idx, dmx_data, buffer >>
    /\ UNCHANGED << last_completed, sent, cycle, error_at, since_cycle, work, post_abort,
                    sampled >>
    /\ UNCHANGED << producer, offline >>

(***************************************************************************)
(* The pacing thread (the lambda of initialize).                           *)
(***************************************************************************)
\* Mutant: the quotient rounded up.
TargetPeriod_RoundedUp(refreshRate) == (MsPerSecond + refreshRate - 1) \div refreshRate

\* 1000 / config.refreshRate, a division of ints.
TargetPeriod(refreshRate) == MsPerSecond \div refreshRate

\* long long time = 1000 / config.refreshRate; auto last_send = now();
ThreadStart ==
    /\ ~terminated
    /\ pc = "start"
    /\ time' = TargetPeriod(config.refreshRate)
    /\ last_send' = clock
    /\ pc' = "while"
    /\ UNCHANGED << now, sleep_time, frame, idx, dmx_data, buffer >>
    /\ UNCHANGED << shared, producer, history, offline >>

\* Mutant: a loop that does not look at the abort flag.
WhileCondition_Forever == TRUE

\* while (!abort_request_)
WhileCondition == ~abort_request_

WhileCheck ==
    /\ ~terminated
    /\ pc = "while"
    /\ pc' = IF WhileCondition THEN "try" ELSE "done"
    /\ UNCHANGED << time, last_send, now, sleep_time, frame, idx, dmx_data, buffer >>
    /\ UNCHANGED << shared, producer, history, offline >>

\* sleep_time = time - elapsed_ms
SleepTime(period, elapsed_ms) == period - elapsed_ms

\* now = system_clock::now(); elapsed_ms = now - last_send; sleep_time = ...;
\* without a sleep, last_send = now follows at once.  Only differences of time
\* points are ever used, so the epoch is moved to the old last_send here.
ReadClock ==
    /\ ~terminated
    /\ pc = "try"
    /\ LET n == clock - last_send
           elapsed_ms == n - 0
           st == SleepTime(time, elapsed_ms)
       IN  /\ clock' = n
           /\ now' = n
           /\ sleep_time' = st
           /\ IF st > 0
              THEN pc' = "sleep" /\ last_send' = 0
              ELSE pc' = "lock" /\ last_send' = n
    /\ UNCHANGED << time, frame, idx, dmx_data, buffer >>
    /\ UNCHANGED << config, computed_senders, last_frame_, frame_mutex_, thread_,
                    abort_request_, socket, terminated, dtor >>
    /\ UNCHANGED << producer, history, offline >>

\* The time point last_send is set to after the sleep.
StampAfterSleep == now

\* std::this_thread::sleep_for(milliseconds(sleep_time)); last_send = now;
Sleep ==
    /\ ~terminated
    /\ pc = "sleep"
    /\ \E late \in 0 .. MaxLate :
          /\ clock' = clock + sleep_time + late
          /\ since_cycle' = IF since_cycle = -1 THEN -1 ELSE since_cycle + sleep_time + late
    /\ last_send' = StampAfterSleep
    /\ pc' = "lock"
    /\ UNCHANGED << time, now, sleep_time, frame, idx, dmx_data, buffer >>
    /\ UNCHANGED << config, computed_senders, last_frame_, frame_mutex_, thread_,
                    abort_request_, socket, terminated, dtor >>
    /\ UNCHANGED << last_completed, sent, cycle, error_at, work, post_abort, sampled,
                    spawned >>
    /\ UNCHANGED << producer, offline >>

\* frame_mutex_.lock();
PacerLock ==
    /\ ~terminated
    /\ pc = "lock"
    /\ frame_mutex_ = "free"
    /\ frame_mutex_' = "pacer"
    /\ pc' = "copy"
    /\ UNCHANGED << config, computed_senders, last_frame_, thread_, abort_request_,
                    socket, terminated, dtor, clock >>
    /\ UNCHANGED << time, last_send, now, sleep_time, frame, idx, dmx_data, buffer >>
    /\ UNCHANGED << producer, history, offline >>

\* Mutant: the unlock after the copy is missing.
MutexAfterCopy_Held == "pacer"

\* The owner of frame_mutex_ once the snapshot has been copied.
MutexAfterCopy == "free"

\* Mutant: the test of the snapshot is missing.
MailboxEmpty_Never(held) == FALSE

\* if (!frame)
MailboxEmpty(held) == held = NoFrame

\* Mutant: the snapshot is moved out of the mailbox.
MailboxAfterRead_Taken(held) == NoFrame

\* auto frame = last_frame_ copies the handle: the mailbox keeps it.
MailboxAfterRead(held) == held

\* auto frame = last_frame_; frame_mutex_.unlock(); if (!frame) continue;
\* send_computed_senders(frame) begins (an empty sender list ends it at once).
\* The history tells an iteration on an empty mailbox ("empty") from the
\* first send cycle on a snapshot ("running") and a later one ("resending").
CopyUnlock ==
    /\ ~terminated
    /\ pc = "copy"
    /\ frame' = IF ~MailboxEmpty(last_frame_) /\ Len(computed_senders) > 0
                THEN last_frame_ ELSE NoFrame
    /\ last_frame_' = MailboxAfterRead(last_frame_)
    /\ frame_mutex_' = MutexAfterCopy
    /\ sent' = << >>
    /\ error_at' = 0
    /\ sampled' = IF MailboxEmpty(last_frame_) THEN sampled ELSE sampled \cup {last_frame_}
    /\ IF MailboxEmpty(last_frame_)
       THEN /\ pc' = "while"
            /\ idx' = 0
            /\ cycle' = "empty"
            /\ UNCHANGED << since_cycle, work, post_abort >>
       ELSE /\ pc' = IF Len(computed_senders) > 0 THEN "encode" ELSE "while"
            /\ idx' = IF Len(computed_senders) > 0 THEN 1 ELSE 0
            /\ cycle' = IF Len(computed_senders) = 0 THEN "completed"
                        ELSE IF last_frame_ \in sampled THEN "resending" ELSE "running"
            /\ since_cycle' = 0
            /\ work' = 0
            /\ post_abort' = IF abort_request_ THEN post_abort + 1 ELSE post_abort
    /\ UNCHANGED << config, computed_senders, thread_, abort_request_,
                    socket, terminated, dtor, clock >>
    /\ UNCHANGED << time, last_send, now, sleep_time, dmx_data, buffer >>
    /\ UNCHANGED << last_completed, spawned >>
    /\ UNCHANGED << producer, offline >>

\* Mutant: the try block encloses the loop, so an exception ends the thread.
AfterCatch_Exit == "done"

\* } catch (...) { CASPAR_LOG_CURRENT_EXCEPTION(); } and the loop's condition is next.
AfterCatch == "while"

\* What average_color may do for a sender: return, or throw (only when called).
EncodeOutcomes(sender) == IF Len(sender.fixtures) > 0 THEN {"ok", "throw"} ELSE {"ok"}

\* send_computed_sender up to the call of send_to: an exception of
\* average_color leaves through catch (...) to the loop's condition; without
\* one, the memset, the fixtures' writes and the packet are done.
EncodeSender ==
    /\ ~terminated
    /\ pc = "encode"
    /\ \/ /\ "throw" \in EncodeOutcomes(computed_senders[idx])
          /\ pc' = AfterCatch
          /\ dmx_data' = << >>
          /\ buffer' = << >>
          /\ cycle' = "encode_failed"
          /\ error_at' = idx
          /\ frame' = NoFrame
          /\ idx' = 0
       \/ /\ "ok" \in EncodeOutcomes(computed_senders[idx])
          /\ pc' = "send_to"
          /\ UNCHANGED << cycle, error_at, frame, idx >>
          /\ dmx_data' = UniverseData(computed_senders[idx], frame)
          /\ buffer' = DmxPacket(computed_senders[idx], dmx_data', UniverseSize)
    /\ UNCHANGED << time, last_send, now, sleep_time >>
    /\ UNCHANGED << last_completed, sent, since_cycle, work, post_abort, sampled, spawned >>
    /\ UNCHANGED << shared, producer, offline >>

\* The datagram socket.send_to is given for a sender, as the history keeps it:
\* where it goes, how long it is and its header; the channel data it carries
\* is that of buffer.
Datagram(sender, bytes) ==
    [endpoint |-> sender.endpoint, size |-> Len(bytes), header |-> SubSeq(bytes, 1, HeaderSize)]

\* Mutant: the loop steps over every other sender.
NextSender_Skip(i) == i + 2

\* Where the loop of send_computed_senders goes after a successful send.
NextSender(i) == i + 1

\* Mutant: the loop hands its element over and leaves it without fixtures.
SendersAfterPass_Moved(senders, i) == [senders EXCEPT ![i].fixtures = << >>]

\* for (auto computed_sender : computed_senders) and the by-value parameter
\* of send_computed_sender: a pass works on copies, the list stays as it was.
SendersAfterPass(senders, i) == senders

\* socket.send_to(buffer, sender.endpoint, 0, err); if (err) throw ...;
\* then the next sender, or the end of the loop.
SendTo ==
    /\ ~terminated
    /\ pc = "send_to"
    /\ \E late \in 0 .. MaxLate :
          /\ clock' = clock + late
          /\ since_cycle' = since_cycle + late
          /\ work' = work + late
    /\ \E err \in BOOLEAN :
          IF err
          THEN /\ pc' = AfterCatch
               /\ cycle' = "send_failed"
               /\ error_at' = idx
               /\ frame' = NoFrame
               /\ idx' = 0
               /\ UNCHANGED sent
          ELSE /\ sent' = Append(sent, Datagram(computed_senders[idx], buffer))
               /\ IF NextSender(idx) > Len(computed_senders)
                  THEN /\ pc' = "while"
                       /\ cycle' = "completed"
                       /\ frame' = NoFrame
                       /\ idx' = 0
                  ELSE /\ pc' = "encode"
                       /\ idx' = NextSender(idx)
                       /\ UNCHANGED << cycle, frame >>
               /\ UNCHANGED error_at
    /\ dmx_data' = << >>
    /\ buffer' = << >>
    /\ computed_senders' = SendersAfterPass(computed_senders, idx)
    /\ UNCHANGED << time, last_send, now, sleep_time >>
    /\ UNCHANGED << config, last_frame_, frame_mutex_, thread_,
                    abort_request_, socket, terminated, dtor >>
    /\ UNCHANGED << last_completed, post_abort, sampled, spawned >>
    /\ UNCHANGED << producer, offline >>

PacingThread == ThreadStart \/ WhileCheck \/ ReadClock \/ Sleep \/ PacerLock \/ CopyUnlock
            \/ EncodeSender \/ SendTo

(***************************************************************************)
(* send(field, frame), called by the pipeline with the frames in order.    *)
(* The consumer is only destroyed once its callers are gone, so no call    *)
(* starts after the destructor has.                                        *)
(***************************************************************************)
\* std::lock_guard<std::mutex> lock(frame_mutex_);
SendLock(p) ==
    /\ ~terminated
    /\ dtor = "alive"
    /\ call[p] = "idle"
    /\ next_frame <= MaxFrames
    /\ frame_mutex_ = "free"
    /\ frame_mutex_' = p
    /\ arg' = [arg EXCEPT ![p] = next_frame]
    /\ next_frame' = next_frame + 1
    /\ call' = [call EXCEPT ![p] = "store"]
    /\ UNCHANGED result
    /\ UNCHANGED << config, computed_senders, last_frame_, thread_, abort_request_,
                    socket, terminated, dtor, clock >>
    /\ UNCHANGED << pacer, history, offline >>

\* Mutant: a frame is only taken while the mailbox is empty.
Deliver_KeepFirst(held, delivered) == IF held = NoFrame THEN delivered ELSE held

\* The mailbox after a delivery.
Deliver(held, delivered) == delivered

\* last_frame_ = frame;
SendStore(p) ==
    /\ ~terminated
    /\ call[p] = "store"
    /\ last_frame_' = Deliver(last_frame_, arg[p])
    /\ call' = [call EXCEPT ![p] = "return"]
    /\ UNCHANGED << arg, result, next_frame >>
    /\ UNCHANGED << config, computed_senders, frame_mutex_, thread_, abort_request_,
                    socket, terminated, dtor, clock >>
    /\ UNCHANGED << pacer, history, offline >>

\* return make_ready_future(true); the lock_guard releases frame_mutex_.
SendReturn(p) ==
    /\ ~terminated
    /\ call[p] = "return"
    /\ result' = [result EXCEPT ![p] = "ready_true"]
    /\ frame_mutex_' = "free"
    /\ last_completed' = arg[p]
    /\ call' = [call EXCEPT ![p] = "idle"]
    /\ arg' = [arg EXCEPT ![p] = NoFrame]
    /\ UNCHANGED next_frame
    /\ UNCHANGED << config, computed_senders, last_frame_, thread_, abort_request_,
                    socket, terminated, dtor, clock >>
    /\ UNCHANGED << sent, cycle, error_at, since_cycle, work, post_abort, sampled, spawned >>
    /\ UNCHANGED << pacer, offline >>

Producer == \E p \in Producers : SendLock(p) \/ SendStore(p) \/ SendReturn(p)

(***************************************************************************)
(* ~artnet_consumer(), then the members' destructors.                      *)
(***************************************************************************)
\* abort_request_ = true;
DtorSetAbort ==
    /\ ~terminated
    /\ dtor = "alive"
    /\ \A p \in Producers : call[p] = "idle"
    /\ abort_request_' = TRUE
    /\ dtor' = "join"
    /\ UNCHANGED << config, computed_senders, last_frame_, frame_mutex_, thread_,
                    socket, terminated, clock >>
    /\ UNCHANGED << pacer, producer, history, offline >>

\* Mutant: the thread is detached, not joined.
JoinReturns_NoWait == TRUE

\* What thread_.join() waits for.
JoinReturns == pc = "done"

\* if (thread_.joinable()) thread_.join();
DtorJoin ==
    /\ ~terminated
    /\ dtor = "join"
    /\ IF thread_ = "joinable"
       THEN JoinReturns /\ thread_' = "joined"
       ELSE UNCHANGED thread_
    /\ dtor' = "members"
    /\ UNCHANGED << config, computed_senders, last_frame_, frame_mutex_, abort_request_,
                    socket, terminated, clock >>
    /\ UNCHANGED << pacer, producer, history, offline >>

\* The members are destroyed after the destructor's body: socket, io_service, ...
DtorMembers ==
    /\ ~terminated
    /\ dtor = "members"
    /\ socket' = "released"
    /\ dtor' = "destroyed"
    /\ UNCHANGED << config, computed_senders, last_frame_, frame_mutex_, thread_,
                    abort_request_, terminated, clock >>
    /\ UNCHANGED << pacer, producer, history, offline >>

Destructor == DtorSetAbort \/ DtorJoin \/ DtorMembers

Next == Initialize \/ PacingThread \/ Producer \/ Destructor

Spec == Init /\ [][Next]_vars

\* The scheduler runs every thread that can take a step, and a send_to or a
\* sleep_for returns.
LiveSpec ==
    /\ Spec
    /\ WF_vars(PacingThread)
    /\ WF_vars(Destructor)
    /\ WF_vars(\E p \in Producers : SendStore(p) \/ SendReturn(p))

(***************************************************************************)
(* The configuration pipeline: create_preconfigured_consumer reads the     *)
(* refresh rate, get_fixtures_ptree validates the <fixture> elements of    *)
(* the tree's sender one by one, the constructor runs compute_senders and  *)
(* compute_fixtures, and send_computed_sender writes each instance's       *)
(* channels at its address.  A child of an element is << >> when absent    *)
(* and << v >> when present.                                               *)
(***************************************************************************)
\* int refreshRate = 10;
DefaultRefreshRate == 10

\* xml_fixture.second.get(key, default)
Get(child, default) == IF Len(child) = 0 THEN default ELSE child[1]

\* boost::iequals(type, name), over the type strings drawn below.
IEquals(type, name) ==
    \/ type = name
    \/ type = "dimmer" /\ name = "DIMMER"
    \/ type = "rgb" /\ name = "RGB"
    \/ type = "rgbw" /\ name = "RGBW"

NoFixture == Fixture(0, 0, 0, 0)

\* One pass of the loop of get_fixtures_ptree: the fixture, or the user_error thrown.
ParseFixture(xml) ==
    LET startAddress == Get(xml.start_address, 0)
        fixtureCount == Get(xml.fixture_count, -1)
        type == Get(xml.type, "")
        ftype == IF IEquals(type, "DIMMER") THEN DIMMER
                 ELSE IF IEquals(type, "RGB") THEN RGB
                 ELSE IF IEquals(type, "RGBW") THEN RGBW
                 ELSE 0
        given == Get(xml.fixture_channels, -1)
        fixtureChannels == IF given < 0 THEN ftype ELSE given
    IN  IF startAddress < 1
        THEN [error |-> "Fixture start address must be specified", fixture |-> NoFixture]
        ELSE IF fixtureCount < 1
        THEN [error |-> "Fixture count must be specified", fixture |-> NoFixture]
        ELSE IF type = ""
        THEN [error |-> "Fixture type must be specified", fixture |-> NoFixture]
        ELSE IF ftype = 0
        THEN [error |-> "Unknown fixture type", fixture |-> NoFixture]
        ELSE IF fixtureChannels < ftype
        THEN [error |-> "Fixture channel count must be at least enough channels for current color mode",
              fixture |-> NoFixture]
        ELSE [error |-> "",
              fixture |-> Fixture(ftype, startAddress - 1, fixtureCount, fixtureChannels)]

\* The <fixture> elements drawn: addresses at both ends of the universe.
XmlFixtures ==
    [start_address : {<< >>, << 0 >>, << 1 >>, << 505 >>, << 510 >>, << 512 >>},
     fixture_count : {<< >>, << 0 >>} \cup { << n >> : n \in 1 .. MaxFixtureCount },
     type : {<< >>, << "DIMMER" >>, << "rgb" >>, << "RGBW" >>, << "LASER" >>},
     fixture_channels : {<< >>, << -1 >>, << 0 >>, << 2 >>, << 3 >>, << 4 >>, << 5 >>}]

\* The elements drawn for a second <fixture> of the sender: two that pass
\* the validation and one that does not.
SecondFixtures ==
    { [start_address |-> << 7 >>, fixture_count |-> << 2 >>, type |-> << "dimmer" >>,
       fixture_channels |-> << >>],
      [start_address |-> << 20 >>, fixture_count |-> << 1 >>, type |-> << "RGBW" >>,
       fixture_channels |-> << 6 >>],
      [start_address |-> << 1 >>, fixture_count |-> << 1 >>, type |-> << >>,
       fixture_channels |-> << >>] }

\* The configuration trees drawn: a refresh-rate child and one sender with
\* one or two <fixture> elements.
XmlTrees ==
    [refresh_rate : {<< >>, << -1 >>, << 0 >>, << 1 >>, << 1001 >>},
     fixtures : { << f >> : f \in XmlFixtures }
                  \cup { << f, s >> : f \in XmlFixtures, s \in SecondFixtures }]

ConsumerOff ==
    /\ config = [refreshRate |-> DefaultRefreshRate, senders |-> << >>]
    /\ computed_senders = << >>
    /\ last_frame_ = NoFrame
    /\ frame_mutex_ = "free"
    /\ thread_ = "none"
    /\ abort_request_ = FALSE
    /\ socket = "unopened"
    /\ terminated = FALSE
    /\ dtor = "unbuilt"
    /\ clock = 0
    /\ pc = "none"
    /\ time = 0
    /\ last_send = 0
    /\ now = 0
    /\ sleep_time = 0
    /\ frame = NoFrame
    /\ idx = 0
    /\ dmx_data = << >>
    /\ buffer = << >>
    /\ call = [p \in Producers |-> "idle"]
    /\ arg = [p \in Producers |-> NoFrame]
    /\ result = [p \in Producers |-> "none"]
    /\ next_frame = 1
    /\ last_completed = NoFrame
    /\ sent = << >>
    /\ cycle = "idle"
    /\ error_at = 0
    /\ since_cycle = -1
    /\ work = 0
    /\ post_abort = 0
    /\ sampled = {}
    /\ spawned = 0

InitGeometry ==
    /\ ConsumerOff
    /\ EncoderOff
    /\ g_pc = "create"
    /\ g_xml \in XmlTrees
    /\ g_fixtures = << >>
    /\ g_computed = << >>
    /\ g_k = 0
    /\ g_written = {}
    /\ g_refresh = DefaultRefreshRate
    /\ g_error = ""

\* Mutant: only a negative refresh rate is refused.
RefreshRateRejected_Negative(refreshRate) == refreshRate < 0

\* if (config.refreshRate < 1) CASPAR_THROW_EXCEPTION(user_error() ...)
RefreshRateRejected(refreshRate) == refreshRate < 1

\* create_preconfigured_consumer up to the call of get_senders_ptree.
CreatePreconfiguredConsumer ==
    /\ g_pc = "create"
    /\ g_refresh' = Get(g_xml.refresh_rate, g_refresh)
    /\ IF RefreshRateRejected(g_refresh')
       THEN /\ g_pc' = "rejected"
            /\ g_error' = "Refresh rate must be at least 1"
       ELSE /\ g_pc' = "parse"
            /\ g_error' = ""
    /\ UNCHANGED << g_xml, g_fixtures, g_computed, g_k, g_written >>
    /\ UNCHANGED << shared, pacer, producer, history, encoder >>

\* get_fixtures_ptree, one pass of its loop: the next element is validated
\* and pushed back; a user_error rejects the configuration.
GetFixturesPtree ==
    /\ g_pc = "parse"
    /\ LET parsed == ParseFixture(g_xml.fixtures[Len(g_fixtures) + 1])
       IN  IF parsed.error = ""
           THEN /\ g_fixtures' = Append(g_fixtures, parsed.fixture)
                /\ g_pc' = IF Len(g_fixtures) + 1 = Len(g_xml.fixtures)
                           THEN "compute" ELSE "parse"
                /\ UNCHANGED g_error
           ELSE /\ g_fixtures' = << >>
                /\ g_pc' = "rejected"
                /\ g_error' = parsed.error
    /\ UNCHANGED << g_xml, g_computed, g_k, g_written, g_refresh >>
    /\ UNCHANGED << shared, pacer, producer, history, encoder >>

\* spl::make_shared<artnet_consumer>(config): the constructor moves the
\* configuration in, opens the socket and runs compute_senders, which runs
\* compute_fixtures for the sender.
ComputeFixtures ==
    /\ g_pc = "compute"
    /\ config' = [refreshRate |-> g_refresh,
                  senders |-> << Sender("127.0.0.1", 6454, 0, g_fixtures) >>]
    /\ computed_senders' = compute_senders(config')
    /\ g_computed' = compute_fixtures([fixtures |-> g_fixtures])
    /\ socket' = "open"
    /\ dtor' = "alive"
    /\ g_k' = 1
    /\ g_pc' = "encode"
    /\ UNCHANGED << g_xml, g_fixtures, g_written, g_refresh, g_error >>
    /\ UNCHANGED << last_frame_, frame_mutex_, thread_, abort_request_, terminated, clock >>
    /\ UNCHANGED << pacer, producer, history, encoder >>

\* One pass of the fixture loop of send_computed_sender: the offsets it writes.
EncodeFixture ==
    /\ g_pc = "encode"
    /\ g_written' = g_written \cup WriteOffsets(g_computed[g_k])
    /\ g_k' = g_k + 1
    /\ g_pc' = IF g_k + 1 > Len(g_computed) THEN "encoded" ELSE "encode"
    /\ UNCHANGED << g_xml, g_fixtures, g_computed, g_refresh, g_error >>
    /\ UNCHANGED << shared, pacer, producer, history, encoder >>

\* The host calls initialize() on the consumer it was given, if it was given one.
NextGeometry ==
    CreatePreconfiguredConsumer \/ GetFixturesPtree \/ ComputeFixtures \/ EncodeFixture
        \/ Initialize

SpecGeometry == InitGeometry /\ [][NextGeometry]_vars

(***************************************************************************)
(* The channel encoder on its own: the switch of send_computed_sender for  *)
(* one fixture type and one colour.                                        *)
(***************************************************************************)
\* The values drawn for each of color.r, color.g, color.b (uint8_t).
ColorBytes == {0, 1, 2, 63, 64, 127, 128, 129, 200, 254, 255}

InitEncoder ==
    /\ ConsumerOff
    /\ GeometryOff
    /\ e_pc = "ready"
    /\ e_type \in {DIMMER, RGB, RGBW}
    /\ e_color \in [r : ColorBytes, g : ColorBytes, b : ColorBytes]
    /\ e_bytes = << >>

\* switch (computed_fixture.type) { ... }
Encode ==
    /\ e_pc = "ready"
    /\ e_bytes' = EncodeChannels(e_type, e_color)
    /\ e_pc' = "encoded"
    /\ UNCHANGED << e_type, e_color >>
    /\ UNCHANGED << shared, pacer, producer, history, geometry >>

SpecEncoder == InitEncoder /\ [][Encode]_vars

TypeOK ==
    /\ pc \in {"none", "start", "while", "try", "sleep", "lock", "copy", "encode",
               "send_to", "done"}
    /\ frame_mutex_ \in {"free", "pacer"} \cup Producers
    /\ thread_ \in {"none", "joinable", "joined"}
    /\ dtor \in {"unbuilt", "alive", "join", "members", "destroyed"}
    /\ last_frame_ \in 0 .. MaxFrames
    /\ cycle \in {"idle", "empty", "running", "resending", "completed", "send_failed",
                  "encode_failed"}
    /\ spawned \in 0 .. 2

(***************************************************************************)
(* Properties.                                                             *)
(***************************************************************************)

\* C1: the mailbox is latest-wins: whenever the pacing thread copies the
\* snapshot, the frame it gets is the frame of the send() that returned last
\* (no frame when none has), whatever was delivered before it.
C1_LatestWins == [][(pc = "copy" /\ pc' # "copy") => frame' = last_completed]_vars

\* Both frames were delivered before the first read, which got the second;
\* the first one was never sampled.
C1_Witness == pc = "encode" /\ frame = 2 /\ last_completed = 2 /\ sampled = {2}

\* C2: when the send to one destination has failed, every other configured
\* destination has still been sent its packet by the end of that iteration.
C2_IndependentSends ==
    (pc = "while" /\ cycle = "send_failed") =>
        \A i \in 1 .. Len(computed_senders) :
            i # error_at =>
                \E k \in 1 .. Len(sent) : sent[k].endpoint = computed_senders[i].endpoint

\* C3: no failure inside an iteration ends the pacing loop: the thread is done
\* only with the abort flag set, a failing step leads to the loop's condition,
\* and every send cycle started afterwards starts at the first sender with
\* nothing sent yet.
C3_LoopSurvivesFailure ==
    /\ [](pc = "done" => abort_request_)
    /\ [][(cycle' \in {"send_failed", "encode_failed"} /\ cycle' # cycle)
            => (pc' = "while" /\ ~terminated')]_vars
    /\ [][(pc = "copy" /\ pc' = "encode") => (idx' = 1 /\ sent' = << >>)]_vars

\* A send failed in the iteration before, and the loop has gone on into the
\* next iteration.
C3_Witness ==
    /\ cycle = "send_failed"
    /\ pc \in {"try", "sleep", "lock", "copy"}
    /\ ~abort_request_

\* C4: once the destructor has set the abort flag, the pacing thread exits and
\* the destructor gets past its join and ends; at most one send cycle starts
\* after the flag was set; without initialize() nothing is joined.
C4_Shutdown ==
    /\ abort_request_ ~> (dtor = "destroyed" /\ pc \in {"none", "done"})
    /\ [](post_abort <= 1)
    /\ []((dtor \in {"members", "destroyed"} /\ pc = "none") => thread_ = "none")

\* The thread was joined after it ran one send cycle with the flag already set.
C4_Witness == dtor = "destroyed" /\ thread_ = "joined" /\ post_abort = 1

\* C5: once the socket has been released the pacing thread is not running (no
\* send is in progress or can start), the abort flag is set and the thread, if
\* one was started, has been joined.
C5_NoSendAfterRelease ==
    socket = "released" =>
        /\ pc \in {"none", "done"}
        /\ abort_request_
        /\ thread_ # "joinable"

\* The socket was released after a send cycle that ran while the destructor
\* was waiting.
C5_Witness ==
    /\ socket = "released"
    /\ thread_ = "joined"
    /\ post_abort = 1
    /\ cycle = "completed"

\* C6: the pacing thread owns the frame mutex only while it copies the
\* snapshot, never while it sleeps, encodes or sends, and every send() that
\* has returned has returned a ready future holding true.
C6_ProducerNeverWaits ==
    /\ frame_mutex_ = "pacer" => pc = "copy"
    /\ pc \in {"sleep", "encode", "send_to", "while", "try", "done"} => frame_mutex_ # "pacer"
    /\ \A p \in Producers :
          /\ result[p] \in {"none", "ready_true"}
          /\ call[p] # "idle" => frame_mutex_ = p
    /\ last_completed # NoFrame => \E p \in Producers : result[p] = "ready_true"

\* A producer is inside send(), holding the mutex, while a datagram is being
\* sent.
C6_Witness == pc = "send_to" /\ \E p \in Producers : call[p] = "store" /\ frame_mutex_ = p

\* C7: when a frame is available and the previous send cycle ran to its end
\* with its work taking less than the target period, a send cycle starts at
\* least one target period after the previous one started.
C7_CyclesOnePeriodApart ==
    [][(pc = "copy" /\ pc' # "copy" /\ last_frame_ # NoFrame /\ cycle = "completed"
          /\ work < time)
         => since_cycle >= time]_vars

\* C8: a send cycle in which nothing failed has emitted exactly one datagram
\* per configured sender, in the order of the sender list, each to that
\* sender's endpoint and carrying that sender's universe; while the cycle
\* runs, the senders before the current one have theirs.
C8_OnePacketPerSender ==
    /\ cycle = "completed" => Len(sent) = Len(config.senders)
    /\ pc \in {"encode", "send_to"} => Len(sent) = idx - 1
    /\ \A k \in 1 .. Len(sent) :
          /\ k <= Len(config.senders)
          /\ sent[k].endpoint = << config.senders[k].host, config.senders[k].port >>
          /\ sent[k].header[15] = config.senders[k].universe % 256
          /\ sent[k].header[16] = (config.senders[k].universe \div 256) % 256

\* Both senders of the two-sender configuration have been sent their packet.
C8_Witness == cycle = "completed" /\ Len(sent) = 2 /\ pc = "while"

\* The header of section 4.4 for a packet of `universe`.
HeaderLayout(bytes, universe) ==
    /\ SubSeq(bytes, 1, 8) = << 65, 114, 116, 45, 78, 101, 116, 0 >>
    /\ SubSeq(bytes, 9, 14) = << 0, 80, 0, 14, 0, 0 >>
    /\ bytes[15] = universe % 256
    /\ bytes[16] = (universe \div 256) % 256
    /\ bytes[17] = 2
    /\ bytes[18] = 0

\* The layout of section 4.4 for a packet of `universe` carrying `data`.
PacketLayout(bytes, universe, data) ==
    /\ Len(bytes) = 530
    /\ HeaderLayout(bytes, universe)
    /\ Len(data) = 512
    /\ \A k \in 1 .. 512 : bytes[18 + k] = data[k]

\* C9: every packet handed to send_to is 530 bytes: the protocol id, the six
\* fixed bytes, the universe low then high, the length bytes 2 and 0, and the
\* 512 bytes of the universe buffer unchanged; so is every packet sent.
C9_PacketLayout ==
    /\ pc = "send_to" => PacketLayout(buffer, computed_senders[idx].universe, dmx_data)
    /\ \A k \in 1 .. Len(sent) :
          /\ sent[k].size = 530
          /\ Len(sent[k].header) = 18
          /\ HeaderLayout(sent[k].header, config.senders[k].universe)

\* A packet of a sender without fixtures, whose universe has three bytes.
C9_Witness ==
    /\ pc = "send_to"
    /\ Len(computed_senders[idx].fixtures) = 0
    /\ computed_senders[idx].universe = 66051

\* C10: for a configuration that passed validation, every offset of the
\* universe buffer the encoder writes is at most 511.
C10_WritesInsideUniverse == \A offset \in g_written : offset >= 0 /\ offset <= 511

\* The refresh rate a configuration tree asks for (10 when it names none).
XmlRate(tree) == IF Len(tree.refresh_rate) = 0 THEN 10 ELSE tree.refresh_rate[1]

\* A <fixture> element whose start address, count or type is missing or invalid.
FixtureRefused(x) ==
    \/ Len(x.start_address) = 0
    \/ x.start_address[1] < 1
    \/ Len(x.fixture_count) = 0
    \/ x.fixture_count[1] < 1
    \/ Len(x.type) = 0
    \/ x.type[1] \notin {"DIMMER", "dimmer", "RGB", "rgb", "RGBW", "rgbw"}

\* C11: a configuration tree with refresh-rate < 1, or with a fixture whose
\* start-address or fixture-count is < 1 or missing or whose type is missing
\* or unknown, never gets past validation: it ends rejected with an error
\* message; and up to and including the rejection no consumer exists (no
\* socket, no computed senders) and no pacing thread has been started.  A bad
\* refresh rate is refused before any fixture is looked at.
C11_FailFast ==
    LET refused == \/ XmlRate(g_xml) < 1
                   \/ \E j \in 1 .. Len(g_xml.fixtures) : FixtureRefused(g_xml.fixtures[j])
    IN  /\ (refused /\ g_pc \notin {"create", "parse"}) => g_pc = "rejected"
        /\ g_pc \in {"create", "parse", "rejected"} =>
              /\ dtor = "unbuilt"
              /\ socket = "unopened"
              /\ computed_senders = << >>
              /\ thread_ = "none"
              /\ pc = "none"
              /\ spawned = 0
        /\ g_pc = "rejected" => g_error # ""
        /\ (XmlRate(g_xml) < 1 /\ g_pc # "create") => (g_pc = "rejected" /\ g_fixtures = << >>)

\* refresh-rate 0 has been rejected, with nothing constructed.
C11_Witness ==
    /\ g_pc = "rejected"
    /\ g_xml.refresh_rate = << 0 >>
    /\ g_error = "Refresh rate must be at least 1"
    /\ dtor = "unbuilt"
    /\ thread_ = "none"

\* The minimum channel count of a fixture type, by its name in the tree.
TypeMinimum(name) ==
    CASE name \in {"DIMMER", "dimmer"} -> 1
      [] name \in {"RGB", "rgb"} -> 3
      [] name \in {"RGBW", "rgbw"} -> 4

\* C12: every fixture that passed validation with a fixture-channels value
\* given has a value of at least its type's minimum channel count, and that
\* value is its stride; the type's minimum is the stride only of a fixture
\* whose fixture-channels key is absent.
C12_ChannelsValidated ==
    \A j \in 1 .. Len(g_fixtures) :
        LET x == g_xml.fixtures[j]
            f == g_fixtures[j]
        IN  /\ Len(x.fixture_channels) = 1 =>
                  /\ x.fixture_channels[1] >= TypeMinimum(x.type[1])
                  /\ f.fixtureChannels = x.fixture_channels[1]
            /\ Len(x.fixture_channels) = 0 => f.fixtureChannels = TypeMinimum(x.type[1])

\* The number of instances the first j fixture elements ask for.
RECURSIVE SumCounts(_, _)
SumCounts(xs, j) == IF j = 0 THEN 0 ELSE SumCounts(xs, j - 1) + xs[j].fixture_count[1]

\* C13: once the consumer is constructed, the computed fixtures of the sender
\* are, fixture by fixture in declaration order, the n instances of each
\* fixture, instance i at address (s - 1) + i * c for the configured start
\* address s and the fixture's stride c; start-address 1 gives address 0 and
\* an RGBW fixture without fixture-channels has stride 4.
C13_GeometryAddresses ==
    g_pc \in {"encode", "encoded"} =>
        LET xs == g_xml.fixtures
            n(j) == xs[j].fixture_count[1]
            s(j) == xs[j].start_address[1]
            c(j) == g_fixtures[j].fixtureChannels
        IN  /\ Len(g_computed) = SumCounts(xs, Len(xs))
            /\ computed_senders[1].fixtures = g_computed
            /\ \A j \in 1 .. Len(xs) :
                  /\ \A i \in 0 .. n(j) - 1 :
                        LET instance == g_computed[SumCounts(xs, j - 1) + i + 1]
                        IN  /\ instance.address = (s(j) - 1) + i * c(j)
                            /\ instance.type = TypeMinimum(xs[j].type[1])
                  /\ s(j) = 1 => g_computed[SumCounts(xs, j - 1) + 1].address = 0
                  /\ (xs[j].type[1] \in {"RGBW", "rgbw"} /\ Len(xs[j].fixture_channels) = 0)
                        => c(j) = 4

\* Two RGBW instances from start-address 1 without fixture-channels, then the
\* two dimmers of the second fixture from start-address 7.
C13_Witness ==
    /\ g_pc = "encoded"
    /\ Len(g_xml.fixtures) = 2
    /\ g_xml.fixtures[1].type = << "RGBW" >>
    /\ g_xml.fixtures[1].fixture_channels = << >>
    /\ g_xml.fixtures[1].start_address = << 1 >>
    /\ Len(g_computed) = 4
    /\ g_computed[1].address = 0
    /\ g_computed[2].address = 4
    /\ g_computed[3].address = 6
    /\ g_computed[4].address = 7

\* C14: for every colour the RGBW case writes four bytes (r', g', b', w) with
\* w the least of r, g, b, with r' + w = r, g' + w = g, b' + w = b, and with
\* every byte in 0..255 (the subtractions never wrap).
C14_RgbwEncoding ==
    (e_pc = "encoded" /\ e_type = RGBW) =>
        LET r == e_color.r
            g == e_color.g
            b == e_color.b
            w == e_bytes[4]
        IN  /\ Len(e_bytes) = 4
            /\ w <= r /\ w <= g /\ w <= b
            /\ w \in {r, g, b}
            /\ e_bytes[1] + w = r
            /\ e_bytes[2] + w = g
            /\ e_bytes[3] + w = b
            /\ \A k \in 1 .. 4 : e_bytes[k] \in 0 .. 255

\* (255, 1, 128) has been encoded as (254, 0, 127, 1).
C14_Witness ==
    /\ e_pc = "encoded"
    /\ e_type = RGBW
    /\ e_color = [r |-> 255, g |-> 1, b |-> 128]
    /\ e_bytes = << 254, 0, 127, 1 >>

\* C15: while the mailbox is empty nothing has been sampled and no packet is
\* being built or sent; an iteration that finds it empty goes back to the
\* loop's condition with nothing sent and with last_send set to the clock
\* reading of that iteration; and the iteration after it computes its sleep
\* from the target period and the time elapsed, and sleeps when it is positive.
C15_EmptyMailboxNoPackets ==
    /\ [](last_frame_ = NoFrame =>
            /\ sampled = {}
            /\ sent = << >>
            /\ pc \notin {"encode", "send_to"}
            /\ cycle \in {"idle", "empty"})
    /\ [][(pc = "copy" /\ pc' # "copy" /\ last_frame_ = NoFrame)
            => /\ pc' = "while"
               /\ cycle' = "empty"
               /\ sent' = << >>
               /\ last_send' = now']_vars
    /\ [][(cycle = "empty" /\ pc = "try" /\ pc' # "try")
            => /\ sleep_time' = time - (clock - last_send)
               /\ (pc' = "sleep") <=> (sleep_time' > 0)]_vars

\* The iteration after one that found the mailbox empty is sleeping.
C15_Witness ==
    /\ cycle = "empty"
    /\ pc = "sleep"
    /\ sleep_time > 0
    /\ last_frame_ = NoFrame

\* C16: in every packet handed to send_to, every channel slot that none of
\* the sender's fixtures writes is zero, and every slot a fixture writes
\* holds that fixture's encoding of the frame of this cycle.
C16_UniverseRezeroed ==
    pc = "send_to" =>
        LET sender == computed_senders[idx]
            written == UNION { WriteOffsets(sender.fixtures[k]) :
                                  k \in 1 .. Len(sender.fixtures) }
        IN  /\ \A offset \in 0 .. 511 :
                  offset \notin written =>
                      (dmx_data[offset + 1] = 0 /\ buffer[18 + offset + 1] = 0)
            /\ \A k \in 1 .. Len(sender.fixtures) :
                  LET fixture == sender.fixtures[k]
                      bytes == EncodeChannels(fixture.type,
                                              average_color(frame, fixture.rectangle))
                  IN  \A i \in 1 .. Len(bytes) :
                          buffer[18 + fixture.address + i] = bytes[i]

\* The second sender's packet of a later tick, on the second frame: the slots
\* the first sender writes are zero in it, its dimmer slot is not.
C16_Witness ==
    /\ pc = "send_to"
    /\ idx = 2
    /\ frame = 2
    /\ sampled = {1, 2}
    /\ buffer[18 + 1] = 0
    /\ buffer[18 + 11] = 115

\* C17: no step changes the configuration or the computed senders (their
\* endpoints, universes and computed fixtures), which stay the ones
\* compute_senders made of the configuration.
C17_ConfigurationImmutable ==
    /\ [][config' = config /\ computed_senders' = computed_senders]_vars
    /\ [](computed_senders = compute_senders(config))

\* initialize, two deliveries, a failed send and the destructor's abort have
\* all happened.
C17_Witness ==
    /\ cycle = "send_failed"
    /\ pc = "while"
    /\ last_frame_ = 2
    /\ abort_request_
    /\ Len(computed_senders) = 2

\* C18: at every moment at most one pacing thread exists: of the threads
\* initialize() has constructed, all but one have finished.
C18_SingleWorker == spawned - (IF pc = "done" THEN 1 ELSE 0) <= 1

\* C19: a mailbox that holds a frame never becomes empty again, the pacing
\* thread's read leaves it as it is, and every iteration that reads a frame
\* starts a send cycle at the first sender on exactly that snapshot.
C19_ReadKeepsFrame ==
    /\ [][last_frame_ # NoFrame => last_frame_' # NoFrame]_vars
    /\ [][(pc = "copy" /\ pc' # "copy") => last_frame_' = last_frame_]_vars
    /\ [][(pc = "copy" /\ pc' # "copy" /\ last_frame_ # NoFrame)
            => /\ pc' = "encode"
               /\ idx' = 1
               /\ frame' = last_frame_
               /\ cycle' \in {"running", "resending"}]_vars
    /\ [](pc \in {"encode", "send_to"} => (frame # NoFrame /\ frame \in sampled))
    /\ [](pc = "send_to" => dmx_data = UniverseData(computed_senders[idx], frame))

\* The first frame is being sent again on a later tick, no newer frame having
\* been delivered.
C19_Witness ==
    /\ cycle = "resending"
    /\ pc = "send_to"
    /\ frame = 1
    /\ last_frame_ = 1
    /\ next_frame = 2

\* C20: the target period is the integer quotient of 1000 by the refresh
\* rate, which is at least 1; with a refresh rate above 1000 it is 0, the
\* computed sleep is never positive and the thread is never sleeping.
C20_TargetPeriod ==
    /\ config.refreshRate >= 1
    /\ pc \notin {"none", "start"} =>
          /\ time >= 0
          /\ time * config.refreshRate <= 1000
          /\ 1000 < (time + 1) * config.refreshRate
    /\ config.refreshRate > 1000 =>
          /\ time = 0
          /\ sleep_time <= 0
          /\ pc # "sleep"

\* With refresh rate 1001 an iteration is about to start its send cycle 0 ms
\* after the previous cycle started.
C20_Witness ==
    /\ config.refreshRate = 1001
    /\ pc = "copy"
    /\ cycle = "completed"
    /\ since_cycle = 0
    /\ last_frame_ # NoFrame
====
